---- MODULE Spec2Model ----
(***************************************************************************)
(* Model of compute_distances.py: the zip-to-coordinate lookup builder,    *)
(* the lazy zip code reader and main's source x destination distance table.*)
(*                                                                         *)
(* Text is modelled as a sequence of one-character strings, so that        *)
(* str.strip, str.lower and float() are computed character by character.   *)
(* A csv file is the sequence of rows csv.reader produces from it, a row   *)
(* the sequence of its cells (a blank line is the empty row).              *)
(***************************************************************************)
EXTENDS Integers, Sequences, FiniteSets, TLC

VARIABLES
    lookupFile,              \* rows of zip_to_lat_long_lookup_file (tab delimited)
    dstFile,                 \* rows of dst, header first
    srcFile,                 \* rows of src, header first
    pc,                      \* where main stands
    i,                       \* rows of lookupFile the builder has consumed
    zip_to_lat_long,         \* the dict the builder is filling
    zip_to_lat_long_lookup,  \* main's variable: <<>> until the builder returns, then <<dict>>
    rd,                      \* the two _read_zip_codes generators' frames
    yielded,                 \* what each generator has yielded so far (history)
    cur,                     \* the value the running generator has just yielded
    destination_lat_longs,   \* main's materialised destination list
    source_lat_long,         \* (source_lat, source_long) of the current source zip
    j,                       \* destination pairs the inner loop has consumed
    num_written,             \* main's counter
    sink,                    \* the rows written to outfile
    err,                     \* the exception that ended the run, if any
    events                   \* history of reads, lookups and writes, in order

vars == <<lookupFile, dstFile, srcFile, pc, i, zip_to_lat_long, zip_to_lat_long_lookup,
          rd, yielded, cur, destination_lat_longs, source_lat_long, j, num_written,
          sink, err, events>>

-----------------------------------------------------------------------------
(* Bounds of the model.                                                    *)

MaxLookupRows == 3   \* rows in the reference dataset
MaxRows == 3         \* data rows in a source or destination table

-----------------------------------------------------------------------------
(* Python text primitives.                                                 *)

Whitespace == {" ", "\t"}

Digits == <<"0", "1", "2", "3", "4", "5", "6", "7", "8", "9">>

UpperCase == <<"A", "B", "C", "D", "E", "F", "G", "H", "I", "J", "K", "L", "M",
               "N", "O", "P", "Q", "R", "S", "T", "U", "V", "W", "X", "Y", "Z">>

LowerCase == <<"a", "b", "c", "d", "e", "f", "g", "h", "i", "j", "k", "l", "m",
               "n", "o", "p", "q", "r", "s", "t", "u", "v", "w", "x", "y", "z">>

RECURSIVE lstrip(_)
lstrip(s) ==
    IF s = <<>> \/ Head(s) \notin Whitespace THEN s ELSE lstrip(Tail(s))

RECURSIVE rstrip(_)
rstrip(s) ==
    IF s = <<>> \/ s[Len(s)] \notin Whitespace THEN s ELSE rstrip(SubSeq(s, 1, Len(s) - 1))

\* str.strip()
strip(s) == rstrip(lstrip(s))

lower_char(c) ==
    IF \E k \in 1..26 : UpperCase[k] = c
        THEN LowerCase[CHOOSE k \in 1..26 : UpperCase[k] = c]
        ELSE c

\* str.lower()
lower(s) == [k \in 1..Len(s) |-> lower_char(s[k])]

IsDigit(c) == \E k \in 1..10 : Digits[k] = c

DigitValue(c) == (CHOOSE k \in 1..10 : Digits[k] = c) - 1

RECURSIVE DigitsToNat(_)
DigitsToNat(s) ==
    IF s = <<>> THEN 0 ELSE 10 * DigitsToNat(SubSeq(s, 1, Len(s) - 1)) + DigitValue(s[Len(s)])

RECURSIVE DropTrailingZeros(_)
DropTrailingZeros(s) ==
    IF s = <<>> \/ s[Len(s)] /= "0" THEN s ELSE DropTrailingZeros(SubSeq(s, 1, Len(s) - 1))

(* float(s) for text over digits, sign, point, blanks and letters other    *)
(* than those of an exponent, "inf" or "nan" (and no underscore):          *)
(* surrounding whitespace is dropped, one optional sign, digits with at    *)
(* most one point and at least one digit.  The value is the decimal        *)
(* num * 10^-exp with no trailing zero in the fraction, so that equal      *)
(* numbers are equal values.  ok is FALSE where float() raises ValueError. *)
float(s) ==
    LET t == strip(s)
        signed == t /= <<>> /\ Head(t) \in {"+", "-"}
        body == IF signed THEN Tail(t) ELSE t
        points == {k \in 1..Len(body) : body[k] = "."}
        p == IF points = {} THEN Len(body) + 1 ELSE CHOOSE k \in points : TRUE
        whole == SubSeq(body, 1, p - 1)
        frac == SubSeq(body, p + 1, Len(body))
        wellFormed == /\ Cardinality(points) <= 1
                      /\ \A k \in 1..Len(body) : k \in points \/ IsDigit(body[k])
                      /\ Len(whole) + Len(frac) > 0
        f == DropTrailingZeros(frac)
        magnitude == DigitsToNat(whole \o f)
    IN  IF wellFormed
            THEN [ok |-> TRUE,
                  num |-> IF signed /\ Head(t) = "-" THEN 0 - magnitude ELSE magnitude,
                  exp |-> Len(f)]
            ELSE [ok |-> FALSE, num |-> 0, exp |-> 0]

FloatValue(s) == <<float(s).num, float(s).exp>>

-----------------------------------------------------------------------------
(* Program constants and pure helpers.                                     *)

column_idx_for_long == 10
column_idx_for_lat == 9
column_idx_for_zip == 1

Max(S) == CHOOSE m \in S : \A n \in S : n <= m

max_index == Max({column_idx_for_lat, column_idx_for_zip, column_idx_for_long})

\* csv cells are indexed from 0 in the program and from 1 here.
Cell(row, idx) == row[idx + 1]

\* "row and len(row) > idx"
RowReaches(row, idx) == row /= <<>> /\ Len(row) > idx

ZipCodeText == <<"z", "i", "p", " ", "c", "o", "d", "e">>

\* NormalisedHeader without lower()
NormalisedHeaderCaseSensitive(header) == [k \in 1..Len(header) |-> strip(header[k])]

\* [x.strip().lower() for x in header]
NormalisedHeader(header) == [k \in 1..Len(header) |-> lower(strip(header[k]))]

\* whether list.index("zip code") finds an element (it raises ValueError otherwise)
HasZipCodeColumn(header) ==
    \E k \in 1..Len(header) : NormalisedHeader(header)[k] = ZipCodeText

\* list.index: the position (from 0) of the first equal element
ZipCodeColumnIndex(header) ==
    LET hits == {k \in 1..Len(header) : NormalisedHeader(header)[k] = ZipCodeText}
    IN  (CHOOSE k \in hits : \A h \in hits : k <= h) - 1

HeaderRow == <<"Source Zip Code", "Destination Zip Code", "Geodic Distance">>

(* geopy's distance.distance(a, b).miles is a library outside the          *)
(* repository: the result is kept as the term naming the call.             *)
_compute_distance(source_lat, source_long, dst_lat, dst_long) ==
    [miles_from |-> <<source_lat, source_long>>, miles_to |-> <<dst_lat, dst_long>>]

Readers == {"dst", "src"}

File(r) == IF r = "dst" THEN dstFile ELSE srcFile

\* the data rows of a table: everything csv.reader gives after next(reader)
DataRows(file) == Tail(file)

NoError == [kind |-> "none", line |-> 0, data |-> <<>>, name |-> ""]

Event(op, who, n) == [op |-> op, who |-> who, n |-> n]

-----------------------------------------------------------------------------
(* The inputs of a run.                                                    *)

Zip07 == <<"0", "7">>
Zip07Padded == <<" ", "0", "7", " ">>
Zip94 == <<"9", "4">>
Zip99 == <<"9", "9">>
Bob == <<"B", "o", "b">>

\* a reference row of n cells: zip in cell 1, latitude in cell 9, longitude in cell 10
LookupRow(n, zip, lat, long) ==
    [k \in 1..n |-> CASE k = 1 -> <<"U", "S">>
                      [] k = column_idx_for_zip + 1 -> zip
                      [] k = column_idx_for_lat + 1 -> lat
                      [] k = column_idx_for_long + 1 -> long
                      [] OTHER -> <<>>]

LookupRows ==
    { <<>>,
      LookupRow(10, Zip07, <<"1", ".", "5">>, <<"3">>),
      LookupRow(12, Zip94, <<"4">>, <<"-", "7", ".", "1">>),
      LookupRow(11, Zip07, <<"1", ".", "5">>, <<"3">>),
      LookupRow(11, Zip07Padded, <<" ", "1", ".", "5", "0">>, <<"+", "3", ".", "0">>),
      LookupRow(11, Zip07Padded, <<"-", "2">>, <<".", "2", "5">>),
      LookupRow(11, Zip94, <<"-", "2">>, <<".", "2", "5">>),
      LookupRow(11, Zip94, <<"x">>, <<"3">>),
      LookupRow(11, Zip07, <<"1", ".", "5">>, <<>>) }

RECURSIVE SeqsUpTo(_, _)
SeqsUpTo(S, n) ==
    IF n = 0 THEN {<<>>}
    ELSE LET shorter == SeqsUpTo(S, n - 1)
         IN  shorter \cup {Append(q, x) : q \in {t \in shorter : Len(t) = n - 1}, x \in S}

LookupFiles == SeqsUpTo(LookupRows, MaxLookupRows)

\* a reference dataset that knows 07 and 94
GoodLookupFile ==
    << LookupRow(11, Zip07, <<"1", ".", "5">>, <<"3">>),
       LookupRow(11, Zip94, <<"-", "2">>, <<".", "2", "5">>) >>

Headers ==
    { << <<"Z", "i", "p", " ", "C", "o", "d", "e">> >>,
      << <<"N", "a", "m", "e">>, <<" ", "Z", "I", "P", " ", "c", "o", "d", "e", "\t">> >>,
      << <<"z", "i", "p", " ", "c", "o", "d", "e">>, <<"Z", "i", "p", " ", "C", "o", "d", "e">> >>,
      << <<"N", "a", "m", "e">>, <<"z", "i", "p", "c", "o", "d", "e">> >>,
      <<>> }

TableRows ==
    { <<>>, <<Zip07>>, <<Zip07Padded>>, <<Zip99>>, <<Zip94, Zip07>>, <<Zip94, Zip99, Bob>> }

\* every table with a header and at most MaxRows data rows, and the empty file
Tables ==
    {<<>>} \cup { <<h>> \o rows : h \in Headers, rows \in SeqsUpTo(TableRows, MaxRows) }

PlainHeader == << <<"Z", "i", "p", " ", "C", "o", "d", "e">> >>

FewTables ==
    { <<PlainHeader, <<Zip94>>, <<>>, <<Zip07Padded>>>>,
      <<PlainHeader, <<Zip07>>, <<Zip07>>, <<Zip94>>>>,
      <<PlainHeader, <<Zip07>>, <<Zip99>>, <<Zip94>>>> }

Inputs ==
    (LookupFiles \X {<<PlainHeader, <<Zip07>>, <<Zip94>>>>} \X {<<PlainHeader, <<Zip94>>, <<Zip07Padded>>>>})
    \cup ({GoodLookupFile} \X Tables \X FewTables)
    \cup ({GoodLookupFile} \X FewTables \X Tables)

-----------------------------------------------------------------------------
(* The program.                                                            *)

NewReader == [state |-> "unstarted", zip_code_column_index |-> 0, pos |-> 0, num_zip_codes |-> 0]

Init ==
    /\ \E input \in Inputs :
        /\ lookupFile = input[1]
        /\ dstFile = input[2]
        /\ srcFile = input[3]
    /\ pc = "build"
    /\ i = 0
    /\ zip_to_lat_long = <<>>
    /\ zip_to_lat_long_lookup = <<>>
    /\ rd = [r \in Readers |-> NewReader]
    /\ yielded = [r \in Readers |-> <<>>]
    /\ cur = <<>>
    /\ destination_lat_longs = <<>>
    /\ source_lat_long = <<>>
    /\ j = 0
    /\ num_written = 0
    /\ sink = <<>>
    /\ err = NoError
    /\ events = <<>>

inputVars == <<lookupFile, dstFile, srcFile>>
buildVars == <<i, zip_to_lat_long, zip_to_lat_long_lookup>>
readVars == <<rd, yielded, cur>>
emitVars == <<destination_lat_longs, source_lat_long, j, num_written, sink>>

\* an exception nobody catches ends the run
Raise(e) == pc' = "failed" /\ err' = e

\* dict[key] = value
DictSet(d, key, value) == [k \in DOMAIN d \cup {key} |-> IF k = key THEN value ELSE d[k]]

\* LookupKey without strip()
LookupKeyUntrimmed(row) == Cell(row, column_idx_for_zip)

\* the key row's entry is stored under
LookupKey(row) == strip(Cell(row, column_idx_for_zip))

\* whether float() accepts both coordinates of the row
CoordinatesParse(row) ==
    float(Cell(row, column_idx_for_lat)).ok /\ float(Cell(row, column_idx_for_long)).ok

\* LineNumber reporting enumerate()'s own count
LineNumberFromZero(n) == n

\* the row number the builder reports: enumerate() counts from 0
LineNumber(n) == n + 1

(* _generate_lat_long_lookup_by_zip, one turn of its loop: the row is      *)
(* stored, or skipped with a warning, or ends the run with ValueError.     *)
BuildRow ==
    /\ pc = "build"
    /\ i < Len(lookupFile)
    /\ LET row == lookupFile[i + 1]
       IN  /\ i' = i + 1
           /\ events' = Append(events, Event("build_row", "lookup", i + 1))
           /\ IF RowReaches(row, max_index)
                 THEN IF CoordinatesParse(row)
                         THEN /\ zip_to_lat_long' =
                                    DictSet(zip_to_lat_long, LookupKey(row),
                                            << FloatValue(Cell(row, column_idx_for_lat)),
                                               FloatValue(Cell(row, column_idx_for_long)) >>)
                              /\ UNCHANGED <<pc, err>>
                         ELSE /\ Raise([kind |-> "ValueError: parse", line |-> LineNumber(i),
                                        data |-> row, name |-> "lookup"])
                              /\ UNCHANGED zip_to_lat_long
                 ELSE UNCHANGED <<zip_to_lat_long, pc, err>>
    /\ UNCHANGED <<inputVars, zip_to_lat_long_lookup, readVars, emitVars>>

\* AfterBuild with the header written before dst is read
AfterBuildHeaderFirst == "header"

\* what main does with the dict the builder returned: it reads dst
AfterBuild == "dst_read"

\* the builder returns its dict to main
BuildReturn ==
    /\ pc = "build"
    /\ i = Len(lookupFile)
    /\ zip_to_lat_long_lookup' = <<zip_to_lat_long>>
    /\ pc' = AfterBuild
    /\ events' = Append(events, Event("build_return", "lookup", Cardinality(DOMAIN zip_to_lat_long)))
    /\ UNCHANGED <<inputVars, i, zip_to_lat_long, readVars, emitVars, err>>

\* where main stands while generator r runs, and once it has yielded
ReadPc(r) == IF r = "dst" THEN "dst_read" ELSE "src_read"
ResolvePc(r) == IF r = "dst" THEN "dst_resolve" ELSE "src_resolve"

\* HasZipCodes content with no zip code at all
HasZipCodesOrNone(n) == n >= 0

\* "if num_zip_codes > 0" after the generator's loop
HasZipCodes(n) == n > 0

\* YieldValue without strip()
YieldValueUntrimmed(row, idx) == Cell(row, idx)

\* the value the generator yields for a row
YieldValue(row, idx) == strip(Cell(row, idx))

(* _read_zip_codes up to its loop, run by the first next() on the          *)
(* generator: the header is read and the zip column located.  An empty     *)
(* file makes next(reader) raise StopIteration inside the generator, which *)
(* reaches the caller as RuntimeError.                                     *)
ReadHeader(r) ==
    /\ pc = ReadPc(r)
    /\ rd[r].state = "unstarted"
    /\ events' = Append(events, Event("read_header", r, 0))
    /\ IF File(r) = <<>>
          THEN /\ rd' = [rd EXCEPT ![r].state = "raised"]
               /\ Raise([kind |-> "RuntimeError: StopIteration", line |-> 0,
                         data |-> <<>>, name |-> r])
          ELSE LET header == File(r)[1]
               IN  IF HasZipCodeColumn(header)
                      THEN /\ rd' = [rd EXCEPT ![r].state = "running",
                                               ![r].zip_code_column_index =
                                                    ZipCodeColumnIndex(header)]
                           /\ UNCHANGED <<pc, err>>
                      ELSE /\ rd' = [rd EXCEPT ![r].state = "raised"]
                           /\ Raise([kind |-> "ValueError: header", line |-> 0,
                                     data |-> header, name |-> r])
    /\ UNCHANGED <<inputVars, buildVars, yielded, cur, emitVars>>

(* One turn of the generator's loop: the next row is consumed and either   *)
(* yielded to main or skipped with a warning.                              *)
ReadRow(r) ==
    /\ pc = ReadPc(r)
    /\ rd[r].state = "running"
    /\ rd[r].pos < Len(DataRows(File(r)))
    /\ LET row == DataRows(File(r))[rd[r].pos + 1]
           idx == rd[r].zip_code_column_index
       IN  /\ events' = Append(events, Event("read_row", r, rd[r].pos + 1))
           /\ IF RowReaches(row, idx)
                 THEN /\ rd' = [rd EXCEPT ![r].pos = @ + 1, ![r].num_zip_codes = @ + 1]
                      /\ yielded' = [yielded EXCEPT ![r] = Append(@, YieldValue(row, idx))]
                      /\ cur' = YieldValue(row, idx)
                      /\ pc' = ResolvePc(r)
                 ELSE /\ rd' = [rd EXCEPT ![r].pos = @ + 1]
                      /\ UNCHANGED <<yielded, cur, pc>>
    /\ UNCHANGED <<inputVars, buildVars, emitVars, err>>

(* The generator's loop finds no further row: it returns if it yielded     *)
(* something and raises ValueError otherwise.  The return ends main's      *)
(* list(...) over dst, or main's for loop over src.                        *)
ReadEnd(r) ==
    /\ pc = ReadPc(r)
    /\ rd[r].state = "running"
    /\ rd[r].pos = Len(DataRows(File(r)))
    /\ events' = Append(events, Event("exhausted", r, rd[r].pos))
    /\ IF HasZipCodes(rd[r].num_zip_codes)
          THEN /\ rd' = [rd EXCEPT ![r].state = "returned"]
               /\ pc' = IF r = "dst" THEN "header" ELSE "done"
               /\ UNCHANGED err
          ELSE /\ rd' = [rd EXCEPT ![r].state = "raised"]
               /\ Raise([kind |-> "ValueError: no zip codes", line |-> 0,
                         data |-> <<>>, name |-> r])
    /\ UNCHANGED <<inputVars, buildVars, yielded, cur, emitVars>>

\* Resolve as dict.get with a default: a missing zip is not an error
ResolveWithDefault(d, zip) ==
    IF zip \in DOMAIN d THEN [found |-> TRUE, value |-> d[zip]]
                        ELSE [found |-> TRUE, value |-> << <<0, 0>>, <<0, 0>> >>]

\* zip_to_lat_long_lookup[zip]: the coordinates, or KeyError
Resolve(d, zip) ==
    IF zip \in DOMAIN d THEN [found |-> TRUE, value |-> d[zip]]
                        ELSE [found |-> FALSE, value |-> <<>>]

KeyError(zip, r) == [kind |-> "KeyError", line |-> 0, data |-> zip, name |-> r]

\* the element of main's list(...) for the destination zip just yielded
DstResolve ==
    /\ pc = "dst_resolve"
    /\ events' = Append(events, Event("lookup", "dst", Len(yielded["dst"])))
    /\ LET got == Resolve(zip_to_lat_long_lookup[1], cur)
       IN  IF got.found
              THEN /\ destination_lat_longs' = Append(destination_lat_longs, <<cur, got.value>>)
                   /\ pc' = "dst_read"
                   /\ UNCHANGED err
              ELSE /\ Raise(KeyError(cur, "dst"))
                   /\ UNCHANGED destination_lat_longs
    /\ UNCHANGED <<inputVars, buildVars, readVars, source_lat_long, j, num_written, sink>>

\* writer.writerow(header); num_written = 0; main then starts on src
WriteHeader ==
    /\ pc = "header"
    /\ sink' = Append(sink, HeaderRow)
    /\ num_written' = 0
    /\ pc' = "src_read"
    /\ events' = Append(events, Event("write_header", "out", Len(sink) + 1))
    /\ UNCHANGED <<inputVars, buildVars, readVars, destination_lat_longs, source_lat_long, j, err>>

\* SrcResolve passing over a source zip the lookup does not hold
SrcResolveSkipping ==
    /\ pc = "src_resolve"
    /\ events' = Append(events, Event("lookup", "src", Len(yielded["src"])))
    /\ LET got == Resolve(zip_to_lat_long_lookup[1], cur)
       IN  IF got.found
              THEN /\ source_lat_long' = got.value
                   /\ j' = 0
                   /\ pc' = "inner"
              ELSE /\ pc' = "src_read"
                   /\ UNCHANGED <<source_lat_long, j>>
    /\ UNCHANGED <<inputVars, buildVars, readVars, destination_lat_longs, num_written, sink, err>>

\* the head of main's outer loop body for the source zip just yielded
SrcResolve ==
    /\ pc = "src_resolve"
    /\ events' = Append(events, Event("lookup", "src", Len(yielded["src"])))
    /\ LET got == Resolve(zip_to_lat_long_lookup[1], cur)
       IN  IF got.found
              THEN /\ source_lat_long' = got.value
                   /\ j' = 0
                   /\ pc' = "inner"
                   /\ UNCHANGED err
              ELSE /\ Raise(KeyError(cur, "src"))
                   /\ UNCHANGED <<source_lat_long, j>>
    /\ UNCHANGED <<inputVars, buildVars, readVars, destination_lat_longs, num_written, sink>>

\* the row main writes for the current source zip and a destination pair
DataRow(source_zip, source, pair) ==
    << source_zip, pair[1],
       _compute_distance(source[1], source[2], pair[2][1], pair[2][2]) >>

\* InnerPair walking the destination list backwards
InnerPairReversed(n) == destination_lat_longs[Len(destination_lat_longs) - n]

\* the destination pair the inner loop takes after n others
InnerPair(n) == destination_lat_longs[n + 1]

\* InnerFinished stopping one destination pair short
InnerFinishedEarly(n) == n >= Len(destination_lat_longs) - 1

\* whether the inner loop, having taken n pairs, finds no further one
InnerFinished(n) == n = Len(destination_lat_longs)

\* one turn of main's inner loop
WriteRow ==
    /\ pc = "inner"
    /\ ~InnerFinished(j)
    /\ num_written' = num_written + 1
    /\ sink' = Append(sink, DataRow(cur, source_lat_long, InnerPair(j)))
    /\ j' = j + 1
    /\ events' = Append(events, Event("write_row", "out", Len(sink) + 1))
    /\ UNCHANGED <<inputVars, buildVars, readVars, destination_lat_longs, source_lat_long, pc, err>>

\* the inner loop is over: main asks the src generator for its next zip
InnerDone ==
    /\ pc = "inner"
    /\ InnerFinished(j)
    /\ pc' = "src_read"
    /\ UNCHANGED <<inputVars, buildVars, readVars, emitVars, err, events>>

Next ==
    \/ BuildRow
    \/ BuildReturn
    \/ \E r \in Readers : ReadHeader(r)
    \/ \E r \in Readers : ReadRow(r)
    \/ \E r \in Readers : ReadEnd(r)
    \/ DstResolve
    \/ WriteHeader
    \/ SrcResolve
    \/ WriteRow
    \/ InnerDone

Spec == Init /\ [][Next]_vars

-----------------------------------------------------------------------------
(* Vocabulary of the properties.                                           *)

Lookup == zip_to_lat_long_lookup[1]

DataRowsWritten == IF sink = <<>> THEN 0 ELSE Len(sink) - 1

\* the positions of the events that satisfy Test
EventsWhere(Test(_)) == {k \in 1..Len(events) : Test(events[k])}

IsReadRow(r, e) == e.op = "read_row" /\ e.who = r
IsLookup(r, e) == e.op = "lookup" /\ e.who = r
IsWriteHeader(e) == e.op = "write_header"
IsWriteRow(e) == e.op = "write_row"
IsBuild(e) == e.who = "lookup"
IsOf(r, e) == e.who = r

Min(S) == CHOOSE m \in S : \A n \in S : m <= n

\* the trimmed cell c (from 0) of every row of rows that has one, in order
RECURSIVE TrimmedColumn(_, _)
TrimmedColumn(rows, c) ==
    IF rows = <<>> THEN <<>>
    ELSE LET row == Head(rows)
             rest == TrimmedColumn(Tail(rows), c)
         IN  IF Len(row) >= 1 /\ Len(row) >= c + 1 THEN <<strip(row[c + 1])>> \o rest ELSE rest

-----------------------------------------------------------------------------
(* C1: a run that completes has written, after the header, exactly         *)
(* len(S) * len(D) data rows, S and D being the zips yielded from src and  *)
(* dst, and the data row at position a * len(D) + b (from 0) carries       *)
(* S[a] and D[b]: sources outermost, both in input order, duplicates kept. *)
C1_RowCountAndOrder ==
    pc = "done" =>
        LET S == yielded["src"]
            D == yielded["dst"]
        IN  /\ Len(sink) = 1 + Len(S) * Len(D)
            /\ \A a \in 0..Len(S) - 1 : \A b \in 0..Len(D) - 1 :
                  /\ sink[2 + a * Len(D) + b][1] = S[a + 1]
                  /\ sink[2 + a * Len(D) + b][2] = D[b + 1]

C1_Witness ==
    /\ pc = "done"
    /\ Len(yielded["src"]) = 3 /\ Len(yielded["dst"]) = 3
    /\ yielded["src"][1] = yielded["src"][3] /\ yielded["src"][1] /= yielded["src"][2]
    /\ yielded["dst"][1] = yielded["dst"][2] /\ yielded["dst"][2] /= yielded["dst"][3]
    /\ Len(sink) = 10

(* C2: a zip yielded from dst that the lookup does not hold ends the run   *)
(* with KeyError for that zip, and no data row is (ever) in the sink.      *)
C2_DestinationMiss ==
    \A k \in 1..Len(yielded["dst"]) :
        yielded["dst"][k] \notin DOMAIN Lookup =>
            /\ k = Len(yielded["dst"])
            /\ pc \in {"dst_resolve", "failed"}
            /\ pc = "failed" =>
                  /\ err.kind = "KeyError" /\ err.name = "dst"
                  /\ err.data = yielded["dst"][k]
            /\ DataRowsWritten = 0
            /\ EventsWhere(IsWriteRow) = {}

C2_Witness ==
    /\ pc = "failed" /\ err.kind = "KeyError" /\ err.name = "dst"
    /\ err.data = Zip99
    /\ Len(yielded["dst"]) = 2
    /\ Len(srcFile) = 0
    /\ sink = <<>>

(* C3: a zip yielded from src that the lookup does not hold ends the run   *)
(* with KeyError for that zip; being the k-th source zip (from 0), the     *)
(* sink then holds the header and exactly k * len(D) data rows, those of   *)
(* the k earlier source zips.                                              *)
C3_SourceMiss ==
    \A n \in 1..Len(yielded["src"]) :
        yielded["src"][n] \notin DOMAIN Lookup =>
            LET D == yielded["dst"]
            IN  /\ n = Len(yielded["src"])
                /\ pc \in {"src_resolve", "failed"}
                /\ pc = "failed" =>
                      /\ err.kind = "KeyError" /\ err.name = "src"
                      /\ err.data = yielded["src"][n]
                /\ sink[1] = HeaderRow
                /\ DataRowsWritten = (n - 1) * Len(D)
                /\ \A a \in 0..n - 2 : \A b \in 0..Len(D) - 1 :
                      sink[2 + a * Len(D) + b][1] = yielded["src"][a + 1]

C3_Witness ==
    /\ pc = "failed" /\ err.kind = "KeyError" /\ err.name = "src"
    /\ Len(yielded["src"]) = 2
    /\ Len(DataRows(srcFile)) = 3
    /\ Len(yielded["dst"]) = 2
    /\ Len(sink) = 3

\* the reader's loop has asked for a row and found none left
Exhausted(r) == \E k \in 1..Len(events) : events[k].op = "exhausted" /\ events[k].who = r

EmptyInputError(r) == err.kind = "ValueError: no zip codes" /\ err.name = r

(* C4: a reader raises the no-zip-codes ValueError exactly when its loop   *)
(* has run out of rows having yielded nothing; every data row has then     *)
(* been consumed and none of them had the zip column.                      *)
C4_EmptyInput ==
    \A r \in Readers :
        /\ EmptyInputError(r) <=> (Exhausted(r) /\ yielded[r] = <<>>)
        /\ EmptyInputError(r) =>
              /\ rd[r].pos = Len(DataRows(File(r)))
              /\ Cardinality(EventsWhere(LAMBDA e : IsReadRow(r, e))) = Len(DataRows(File(r)))
              /\ TrimmedColumn(DataRows(File(r)), rd[r].zip_code_column_index) = <<>>
              /\ pc = "failed"
        /\ yielded[r] /= <<>> => ~EmptyInputError(r)

C4_Witness ==
    /\ EmptyInputError("src")
    /\ Len(DataRows(srcFile)) = 3
    /\ \E k \in 1..3 : DataRows(srcFile)[k] /= <<>>

SchemaError(r) == err.kind = "ValueError: header" /\ err.name = r

(* C5: a reader that has read a header has the zip column at the first     *)
(* cell that, trimmed and lower-cased, is "zip code", and has not raised   *)
(* the header ValueError; if there is no such cell it has raised it (with  *)
(* the header) and has yielded nothing.                                    *)
C5_HeaderColumn ==
    \A r \in Readers :
        (rd[r].state /= "unstarted" /\ File(r) /= <<>>) =>
            LET header == File(r)[1]
                matches == {k \in 1..Len(header) : lower(strip(header[k])) = ZipCodeText}
            IN  IF matches = {}
                   THEN /\ SchemaError(r) /\ err.data = header
                        /\ rd[r].state = "raised" /\ pc = "failed"
                        /\ yielded[r] = <<>>
                        /\ EventsWhere(LAMBDA e : IsReadRow(r, e)) = {}
                   ELSE /\ rd[r].zip_code_column_index = Min(matches) - 1
                        /\ ~SchemaError(r)

C5_Witness ==
    /\ rd["dst"].state = "returned"
    /\ rd["dst"].zip_code_column_index = 1
    /\ dstFile[1][2] = <<" ", "Z", "I", "P", " ", "c", "o", "d", "e", "\t">>
    /\ yielded["dst"] = <<Zip07>>

\* the rows (from 1) of the reference dataset with at least 11 cells
WideRows == {k \in 1..Len(lookupFile) : Len(lookupFile[k]) >= 11}

\* whether latitude (cell 9) and longitude (cell 10) of row k are numbers
NumericRow(k) == float(lookupFile[k][10]).ok /\ float(lookupFile[k][11]).ok

(* C6: when every row of at least 11 cells has numeric latitude and        *)
(* longitude, the builder returns a dict whose keys are exactly the        *)
(* trimmed cell 1 of those rows, each with the (latitude, longitude) of    *)
(* the last such row carrying that trimmed postal code.                    *)
C6_LookupContents ==
    (\A k \in WideRows : NumericRow(k)) =>
        /\ pc /= "build" => zip_to_lat_long_lookup /= <<>>
        /\ zip_to_lat_long_lookup /= <<>> =>
              /\ DOMAIN Lookup = {strip(lookupFile[k][2]) : k \in WideRows}
              /\ \A z \in DOMAIN Lookup :
                    LET last == Max({k \in WideRows : strip(lookupFile[k][2]) = z})
                    IN  Lookup[z] = << FloatValue(lookupFile[last][10]),
                                       FloatValue(lookupFile[last][11]) >>

C6_Witness ==
    /\ zip_to_lat_long_lookup /= <<>>
    /\ Len(lookupFile) = 3
    /\ lookupFile[1] = LookupRow(11, Zip07, <<"1", ".", "5">>, <<"3">>)
    /\ lookupFile[2] = LookupRow(11, Zip07Padded, <<"-", "2">>, <<".", "2", "5">>)
    /\ lookupFile[3] = LookupRow(11, Zip07Padded, <<" ", "1", ".", "5", "0">>, <<"+", "3", ".", "0">>)
    /\ DOMAIN Lookup = {Zip07}
    /\ Lookup[Zip07] = << <<15, 1>>, <<3, 0>> >>

ParseError == err.kind = "ValueError: parse"

(* C7: the builder raises its ValueError exactly when it consumes the      *)
(* first row of at least 11 cells whose latitude or longitude is not a     *)
(* number, shorter rows never raising; the error carries that row and its  *)
(* position counted from 1 over all rows, no later row is consumed, main   *)
(* never gets a dict and the sink stays empty.                             *)
C7_ParseErrorAborts ==
    LET bad == {k \in WideRows : ~NumericRow(k)}
    IN  /\ ParseError <=> (bad /= {} /\ i >= Min(bad))
        /\ ParseError =>
              /\ pc = "failed"
              /\ err.line = Min(bad)
              /\ err.data = lookupFile[Min(bad)]
              /\ i = Min(bad)
              /\ EventsWhere(IsBuild) = 1..Min(bad)
              /\ Len(events) = Min(bad)
              /\ zip_to_lat_long_lookup = <<>>
              /\ sink = <<>>

C7_Witness ==
    /\ ParseError
    /\ err.line = 2
    /\ Len(lookupFile) = 3
    /\ Len(lookupFile[1]) = 10
    /\ float(lookupFile[2][10]).ok /\ ~float(lookupFile[2][11]).ok

(* C8: a reader with the zip column at index c has yielded, in order and   *)
(* with duplicates, exactly the trimmed cell c of the non-empty rows with  *)
(* more than c cells among the data rows it has consumed; a skipped row    *)
(* does not end it: it returns only with every data row consumed.          *)
C8_ReaderYields ==
    \A r \in Readers :
        /\ (rd[r].state \in {"running", "returned"} \/ EmptyInputError(r)) =>
              yielded[r] = TrimmedColumn(SubSeq(DataRows(File(r)), 1, rd[r].pos),
                                         rd[r].zip_code_column_index)
        /\ (rd[r].state = "returned" \/ EmptyInputError(r)) =>
              rd[r].pos = Len(DataRows(File(r)))

C8_Witness ==
    /\ rd["dst"].state = "returned"
    /\ DataRows(dstFile) = << <<Zip94>>, <<>>, <<Zip07Padded>> >>
    /\ yielded["dst"] = <<Zip94, Zip07>>

(* C9: the stages of a run come in one order: every step of the builder,   *)
(* then every read of dst and every lookup of a destination zip (one per   *)
(* zip yielded), then the one write of the header, then the reads of src   *)
(* and the data rows.                                                      *)
C9_StageOrder ==
    LET builds == EventsWhere(IsBuild)
        dsts == EventsWhere(LAMBDA e : IsOf("dst", e))
        srcs == EventsWhere(LAMBDA e : IsOf("src", e))
        heads == EventsWhere(IsWriteHeader)
        rows == EventsWhere(IsWriteRow)
        dstLookups == EventsWhere(LAMBDA e : IsLookup("dst", e))
    IN  /\ \A a \in builds : \A b \in dsts \cup heads \cup srcs \cup rows : a < b
        /\ \A a \in dsts : \A b \in heads \cup srcs \cup rows : a < b
        /\ \A a \in heads : \A b \in srcs \cup rows : a < b
        /\ Cardinality(heads) <= 1
        /\ dsts /= {} => (zip_to_lat_long_lookup /= <<>> /\ i = Len(lookupFile))
        /\ heads /= {} =>
              /\ rd["dst"].state = "returned"
              /\ rd["dst"].pos = Len(DataRows(dstFile))
              /\ Cardinality(dstLookups) = Len(yielded["dst"])
              /\ {events[k].n : k \in dstLookups} = 1..Len(yielded["dst"])
              /\ Len(destination_lat_longs) = Len(yielded["dst"])
        /\ (srcs /= {} \/ rows /= {}) => heads /= {}
        /\ sink /= <<>> => (sink[1] = HeaderRow /\ heads /= {})

C9_Witness ==
    /\ pc = "done"
    /\ Len(lookupFile) = 3
    /\ Len(sink) = 5

(* C10: src is consumed in one forward pass, row by row, and whenever a    *)
(* source row is consumed every data row of the source zips yielded before *)
(* it is already in the sink; so the data rows written are never fewer     *)
(* than len(D) times the source zips yielded less one.                     *)
C10_Streaming ==
    LET D == destination_lat_longs
        srcReads == EventsWhere(LAMBDA e : IsReadRow("src", e))
        srcLookups == EventsWhere(LAMBDA e : IsLookup("src", e))
        rows == EventsWhere(IsWriteRow)
    IN  /\ \A k \in srcReads : events[k].n = Cardinality({m \in srcReads : m <= k})
        /\ rd["src"].pos = Cardinality(srcReads)
        /\ \A k \in srcReads :
              Cardinality({m \in rows : m < k}) = Len(D) * Cardinality({m \in srcLookups : m < k})
        /\ pc = "src_read" => DataRowsWritten = Len(D) * Len(yielded["src"])
        /\ Len(yielded["src"]) >= 1 => DataRowsWritten >= Len(D) * (Len(yielded["src"]) - 1)
        /\ DataRowsWritten <= Len(D) * Len(yielded["src"])
        /\ num_written = DataRowsWritten

C10_Witness ==
    /\ pc = "inner"
    /\ j = 1
    /\ Len(destination_lat_longs) = 3
    /\ Len(yielded["src"]) = 2
    /\ DataRowsWritten = 4

====
